---- MODULE Spec2Model ----
(***************************************************************************)
(* A model of src/proxy.py, the HTTP streamable MCP rewrite proxy:         *)
(*   - apply_truncation_rule_if_needed, the logging-only truncation rule   *)
(*   - strip_hop_by_hop_headers, the header filter                         *)
(*   - log_packet, the console logger, print by print                      *)
(*   - mcp and its generator generate, the streaming relay                 *)
(*   - shutdown and shutdown_server, the administrative endpoint           *)
(*                                                                         *)
(* Text is a sequence of one-character strings, so that lstrip, split,     *)
(* lower and the truncation scan are computed character by character.      *)
(* The direction labels of the log use "->" for the arrow of the source.   *)
(***************************************************************************)
EXTENDS Integers, Sequences, FiniteSets, TLC

VARIABLES
  \* harness of apply_truncation_rule_if_needed
  frag,            \* the raw_packet argument
  frag_logged,     \* the value returned
  frag_relogged,   \* the value returned when the rule is applied to frag_logged
  trunc_pc,        \* "call" before the call, "returned" after it
  \* harness of strip_hop_by_hop_headers
  headers,         \* the mapping passed in (the caller's dict object)
  hdr_result,      \* the mapping returned
  hdr_pc,          \* "call" / "returned"
  \* concurrent workers inside log_packet
  stdout,          \* the lines written to standard output, in order
  lp_pc,           \* per worker: position inside log_packet
  lp_arg,          \* per worker: the arguments of its log_packet call
  lp_i,            \* per worker: index of the next payload line to print
  \* one request through mcp()
  pc,              \* position of the request handler
  gen_pc,          \* position of the generator generate()
  request_data,    \* the bytes of the inbound request body
  incoming_body,   \* request.get_data(as_text=True) or ""
  incoming_headers,\* dict(request.headers)
  filtered,        \* the dict sent upstream as headers
  log,             \* the log_packet calls made so far: direction and content
  upstream_posts,  \* the requests.post calls made so far
  delivered,       \* the chunks upstream_response.iter_lines has delivered
  text,            \* the local variable text of generate()
  client_status,   \* status of the response returned to the client
  client_body,     \* body of a non-streamed response
  client_recv,     \* the values generate() has yielded, in order
  escaped,         \* an exception left generate() unhandled
  \* POST /shutdown
  sd_handler,      \* per invocation: position of shutdown()
  sd_thread,       \* per invocation: state of the thread it started
  func_calls,      \* number of calls of the werkzeug shutdown function
  server_accepting \* the server still accepts connections

truncVars == <<frag, frag_logged, frag_relogged, trunc_pc>>
hdrVars == <<headers, hdr_result, hdr_pc>>
logVars == <<stdout, lp_pc, lp_arg, lp_i>>
relayVars == <<pc, gen_pc, request_data, incoming_body, incoming_headers, filtered, log,
               upstream_posts, delivered, text, client_status, client_body,
               client_recv, escaped>>
sdVars == <<sd_handler, sd_thread, func_calls, server_accepting>>
vars == <<truncVars, hdrVars, logVars, relayVars, sdVars>>

(***************************************************************************)
(* Text                                                                    *)
(***************************************************************************)
NL == "\n"

\* The characters the inputs are built from: an opening brace, an ordinary
\* visible character, and three of the characters str.lstrip() removes.
Chars == {"{", "x", " ", "\t", NL}

\* str.isspace() on the characters in use.
IsSpace(c) == c \in {" ", "\t", NL, "\r"}

\* n copies of the visible character "x".
Fill(n) == [i \in 1..n |-> "x"]

\* Every sequence over S of length at most n.
RECURSIVE SeqsUpTo(_, _)
SeqsUpTo(S, n) ==
  IF n = 0 THEN {<<>>}
  ELSE LET R == SeqsUpTo(S, n - 1) IN R \cup {Append(r, c) : r \in R, c \in S}

\* "".join(ss[lo..hi]); the range is split in halves to keep the
\* evaluation shallow.
RECURSIVE JoinRange(_, _, _)
JoinRange(ss, lo, hi) ==
  IF lo > hi THEN <<>>
  ELSE IF lo = hi THEN ss[lo]
  ELSE LET mid == (lo + hi) \div 2
       IN JoinRange(ss, lo, mid) \o JoinRange(ss, mid + 1, hi)

\* "".join(list of texts)
Join(ss) == JoinRange(ss, 1, Len(ss))

(***************************************************************************)
(* apply_truncation_rule_if_needed                                         *)
(***************************************************************************)
VisibleLimit == 350
Budget == 350
Marker == <<".", ".", ".", " ", "(", "t", "r", "u", "n", "c", "a", "t", "e", "d", ")">>

\* raw_packet.lstrip()
lstrip(s) ==
  IF \A i \in 1..Len(s) : IsSpace(s[i]) THEN <<>>
  ELSE LET k == CHOOSE i \in 1..Len(s) :
                  ~IsSpace(s[i]) /\ \A j \in 1..(i - 1) : IsSpace(s[j])
       IN SubSeq(s, k, Len(s))

\* stripped.startswith("{")
startswith_brace(s) == Len(s) > 0 /\ s[1] = "{"

\* len([c for c in raw_packet if c != "\n"])
visible_len(s) == Len(SelectSeq(s, LAMBDA c : c # NL))

\* LoopBody with the newline branch lost: a newline is dropped instead of
\* being copied.
LoopBody_DropNewline(st, ch) ==
  IF ch = NL THEN st
  ELSE IF st.remaining > 0
       THEN [st EXCEPT !.output = Append(@, ch), !.remaining = @ - 1]
       ELSE [st EXCEPT !.stopped = TRUE]

\* One iteration of the loop `for ch in raw_packet` on the loop state
\* (remaining, output); stopped records that the loop took its break.
LoopBody(st, ch) ==
  IF ch = NL THEN [st EXCEPT !.output = Append(@, ch)]
  ELSE IF st.remaining > 0
       THEN [st EXCEPT !.output = Append(@, ch), !.remaining = @ - 1]
       ELSE [st EXCEPT !.stopped = TRUE]

\* The loop over raw[lo..hi], left to right, from loop state st. The range
\* is split in halves only to keep the evaluation shallow: the iterations
\* run in index order and none runs after the break.
RECURSIVE TruncLoop(_, _, _, _)
TruncLoop(raw, lo, hi, st) ==
  IF lo > hi \/ st.stopped THEN st
  ELSE IF lo = hi THEN LoopBody(st, raw[lo])
  ELSE \* the state after the left half is computed once, as left
       CHOOSE r \in { IF left.stopped THEN left
                      ELSE TruncLoop(raw, (lo + hi) \div 2 + 1, hi, left) :
                      left \in {TruncLoop(raw, lo, (lo + hi) \div 2, st)} } : TRUE

\* Lines 111-126: the truncated string.
Truncated(raw) ==
  TruncLoop(raw, 1, Len(raw),
            [remaining |-> Budget, output |-> <<>>, stopped |-> FALSE]).output
    \o Marker

\* The rule with `<` for `<=` in the length test.
apply_truncation_StrictLimit(raw) ==
  IF startswith_brace(lstrip(raw)) THEN raw
  ELSE IF visible_len(raw) < VisibleLimit THEN raw
  ELSE Truncated(raw)

\* The rule testing raw_packet.startswith("{") instead of the stripped text.
apply_truncation_NoLstrip(raw) ==
  IF startswith_brace(raw) THEN raw
  ELSE IF visible_len(raw) <= VisibleLimit THEN raw
  ELSE Truncated(raw)

\* The rule with len(raw_packet), newlines included, in the length test.
apply_truncation_CountsNewlines(raw) ==
  IF startswith_brace(lstrip(raw)) THEN raw
  ELSE IF Len(raw) <= VisibleLimit THEN raw
  ELSE Truncated(raw)

apply_truncation_rule_if_needed(raw) ==
  IF startswith_brace(lstrip(raw)) THEN raw
  ELSE IF visible_len(raw) <= VisibleLimit THEN raw
  ELSE Truncated(raw)

(***************************************************************************)
(* strip_hop_by_hop_headers                                                *)
(***************************************************************************)
\* A header mapping is a function from its keys to their values; a key is a
\* sequence of characters.
UpperToLower ==
  ("A" :> "a") @@ ("B" :> "b") @@ ("C" :> "c") @@ ("D" :> "d") @@ ("E" :> "e") @@ ("F" :> "f") @@ ("G" :> "g") @@ ("H" :> "h") @@ ("I" :> "i") @@ ("J" :> "j") @@ ("K" :> "k") @@ ("L" :> "l") @@ ("M" :> "m")
      @@ ("N" :> "n") @@ ("O" :> "o") @@ ("P" :> "p") @@ ("Q" :> "q") @@ ("R" :> "r") @@ ("S" :> "s") @@ ("T" :> "t") @@ ("U" :> "u") @@ ("V" :> "v") @@ ("W" :> "w") @@ ("X" :> "x") @@ ("Y" :> "y") @@ ("Z" :> "z")

\* str.lower(), on ASCII keys
lower(k) == [i \in DOMAIN k |-> IF k[i] \in DOMAIN UpperToLower
                                THEN UpperToLower[k[i]] ELSE k[i]]

hop_by_hop ==
    { <<"c", "o", "n", "n", "e", "c", "t", "i", "o", "n">>,
      <<"k", "e", "e", "p", "-", "a", "l", "i", "v", "e">>,
      <<"p", "r", "o", "x", "y", "-", "a", "u", "t", "h", "e", "n", "t", "i", "c", "a", "t", "e">>,
      <<"p", "r", "o", "x", "y", "-", "a", "u", "t", "h", "o", "r", "i", "z", "a", "t", "i", "o", "n">>,
      <<"t", "e">>,
      <<"t", "r", "a", "i", "l", "e", "r", "s">>,
      <<"t", "r", "a", "n", "s", "f", "e", "r", "-", "e", "n", "c", "o", "d", "i", "n", "g">>,
      <<"u", "p", "g", "r", "a", "d", "e">> }

\* The filter comparing the key as written, without k.lower().
strip_CaseSensitive(h) ==
  [k \in {x \in DOMAIN h : x \notin hop_by_hop} |-> h[k]]

\* {k: v for k, v in headers.items() if k.lower() not in hop_by_hop}
strip_hop_by_hop_headers(h) ==
  [k \in {x \in DOMAIN h : lower(x) \notin hop_by_hop} |-> h[k]]

\* dict.update with one key
DictSet(d, k, v) == [x \in DOMAIN d \cup {k} |-> IF x = k THEN v ELSE d[x]]

(***************************************************************************)
(* States in which a part of the program is not running                    *)
(***************************************************************************)
TruncIdle == frag = <<>> /\ frag_logged = <<>> /\ frag_relogged = <<>> /\ trunc_pc = "idle"
HdrIdle == headers = <<>> /\ hdr_result = <<>> /\ hdr_pc = "idle"
LogIdle == stdout = <<>> /\ lp_pc = <<>> /\ lp_arg = <<>> /\ lp_i = <<>>
RelayIdle ==
  /\ pc = "idle" /\ gen_pc = "none"
  /\ request_data = <<>> /\ incoming_body = <<>> /\ incoming_headers = <<>> /\ filtered = <<>>
  /\ log = <<>> /\ upstream_posts = <<>> /\ delivered = <<>> /\ text = <<>>
  /\ client_status = 0 /\ client_body = "" /\ client_recv = <<>>
  /\ escaped = FALSE
ShutdownIdle ==
  /\ sd_handler = <<>> /\ sd_thread = <<>>
  /\ func_calls = 0 /\ server_accepting = TRUE

(***************************************************************************)
(* The truncation rule applied to bounded inputs                           *)
(***************************************************************************)
MaxHead == 2
MaxTail == 2
MaxUnder == 2
MaxOver == 1

TailChars == {"x", NL}

\* A fragment is a short head over Chars, a run of visible characters whose
\* length is 0 or close to the limit, and a short tail of visible characters
\* and newlines: the visible count ranges over both sides of the limit, with
\* whitespace, braces and newlines before the run and newlines after it.
TruncInputs ==
  { h \o Fill(n) \o t :
      h \in SeqsUpTo(Chars, MaxHead),
      n \in {0} \cup ((VisibleLimit - MaxUnder)..(VisibleLimit + MaxOver)),
      t \in SeqsUpTo(TailChars, MaxTail) }

InitTrunc ==
  /\ frag \in TruncInputs /\ frag_logged = <<>> /\ frag_relogged = <<>>
  /\ trunc_pc = "call"
  /\ HdrIdle /\ LogIdle /\ RelayIdle /\ ShutdownIdle

\* logged = apply_truncation_rule_if_needed(text)
TruncCall ==
  /\ trunc_pc = "call"
  /\ frag_logged' = apply_truncation_rule_if_needed(frag)
  /\ trunc_pc' = "returned"
  /\ UNCHANGED <<frag, frag_relogged, hdrVars, logVars, relayVars, sdVars>>

\* apply_truncation_rule_if_needed called on the value it returned.
TruncAgain ==
  /\ trunc_pc = "returned"
  /\ frag_relogged' = apply_truncation_rule_if_needed(frag_logged)
  /\ trunc_pc' = "relogged"
  /\ UNCHANGED <<frag, frag_logged, hdrVars, logVars, relayVars, sdVars>>

NextTrunc == TruncCall \/ TruncAgain
SpecTrunc == InitTrunc /\ [][NextTrunc]_vars

(***************************************************************************)
(* The header filter applied to bounded mappings                           *)
(***************************************************************************)
MaxHeaders == 3

HeaderKeys ==
  { <<"C", "o", "n", "n", "e", "c", "t", "i", "o", "n">>,
    <<"c", "o", "n", "n", "e", "c", "t", "i", "o", "n">>,
    <<"K", "e", "e", "p", "-", "A", "l", "i", "v", "e">>,
    <<"T", "E">>,
    <<"T", "r", "a", "n", "s", "f", "e", "r", "-", "E", "n", "c", "o", "d", "i", "n", "g">>,
    <<"U", "P", "G", "R", "A", "D", "E">>,
    <<"H", "o", "s", "t">>,
    <<"A", "c", "c", "e", "p", "t">>,
    <<"c", "o", "n", "t", "e", "n", "t", "-", "t", "y", "p", "e">>,
    <<"X", "-", "T", "e">> }
HeaderValues == {"a", "b"}

HeaderMappings ==
  UNION { [S -> HeaderValues] : S \in {T \in SUBSET HeaderKeys : Cardinality(T) <= MaxHeaders} }

InitHdr ==
  /\ headers \in HeaderMappings /\ hdr_result = <<>> /\ hdr_pc = "call"
  /\ TruncIdle /\ LogIdle /\ RelayIdle /\ ShutdownIdle

\* filtered = strip_hop_by_hop_headers(incoming_headers): the comprehension
\* builds a new dict and only reads headers.items().
StripCall ==
  /\ hdr_pc = "call"
  /\ hdr_result' = strip_hop_by_hop_headers(headers)
  /\ headers' = headers
  /\ hdr_pc' = "returned"
  /\ UNCHANGED <<truncVars, logVars, relayVars, sdVars>>

NextHdr == StripCall
SpecHdr == InitHdr /\ [][NextHdr]_vars

(***************************************************************************)
(* Properties of the truncation rule                                       *)
(***************************************************************************)
\* The first character of s that is not whitespace is "{".
FirstNonSpaceIsBrace(s) ==
  \E i \in 1..Len(s) : s[i] = "{" /\ \A j \in 1..(i - 1) : IsSpace(s[j])

\* The number of characters of s other than the newline.
VisibleCount(s) == Cardinality({i \in 1..Len(s) : s[i] # NL})

\* s ends with the marker.
EndsWithMarker(s) ==
  Len(s) >= Len(Marker) /\ SubSeq(s, Len(s) - Len(Marker) + 1, Len(s)) = Marker

\* C4: a fragment that does not start with "{" and has more than 350
\* visible characters is logged as P followed by the marker, where P is a
\* prefix of the fragment with exactly 350 visible characters; without
\* newlines P is the first 350 characters.
C4_TruncationExactness ==
  (trunc_pc = "returned" /\ ~FirstNonSpaceIsBrace(frag) /\ VisibleCount(frag) > 350)
    => /\ \E n \in 0..Len(frag) :
            /\ frag_logged = SubSeq(frag, 1, n) \o Marker
            /\ VisibleCount(SubSeq(frag, 1, n)) = 350
       /\ (\A i \in 1..Len(frag) : frag[i] # NL)
            => frag_logged = SubSeq(frag, 1, 350) \o Marker

\* A truncated fragment with newlines before its 350th visible character.
C4_Witness ==
  /\ trunc_pc = "returned" /\ ~FirstNonSpaceIsBrace(frag)
  /\ VisibleCount(frag) > 350
  /\ frag[1] = "x" /\ frag[2] = NL
  /\ frag_logged # frag

\* C5: a fragment that does not start with "{" and has at most 350 visible
\* characters is returned unchanged; one with exactly 351 is cut to 350
\* visible characters plus the marker.
C5_TruncationBoundary ==
  (trunc_pc = "returned" /\ ~FirstNonSpaceIsBrace(frag))
    => /\ VisibleCount(frag) <= 350 => frag_logged = frag
       /\ VisibleCount(frag) = 351
            => /\ EndsWithMarker(frag_logged)
               /\ VisibleCount(frag_logged) = 350 + Len(Marker)

\* A fragment of exactly 350 visible characters, with a newline, returned.
C5_Witness ==
  /\ trunc_pc = "returned" /\ ~FirstNonSpaceIsBrace(frag)
  /\ VisibleCount(frag) = 350 /\ Len(frag) > 350
  /\ frag_logged = frag

\* C6: a fragment whose first non-whitespace character is "{" is returned
\* unchanged, whatever its length.
C6_JsonExemption ==
  (trunc_pc = "returned" /\ FirstNonSpaceIsBrace(frag)) => frag_logged = frag

\* A fragment over the limit that starts with whitespace and then "{".
C6_Witness ==
  /\ trunc_pc = "returned" /\ FirstNonSpaceIsBrace(frag)
  /\ IsSpace(frag[1]) /\ VisibleCount(frag) > 350
  /\ frag_logged = frag

(***************************************************************************)
(* log_packet, print by print, in concurrent workers                       *)
(***************************************************************************)
LogWorkers == 2

\* content.split("\n")
RECURSIVE split(_)
split(s) ==
  IF \A i \in 1..Len(s) : s[i] # NL THEN <<s>>
  ELSE LET k == CHOOSE i \in 1..Len(s) : s[i] = NL /\ \A j \in 1..(i - 1) : s[j] # NL
       IN <<SubSeq(s, 1, k - 1)>> \o split(SubSeq(s, k + 1, Len(s)))

\* The log_packet calls the workers make.
LogCalls ==
  { [direction |-> "A->B", content |-> <<"x">>],
    [direction |-> "C->B", content |-> <<"x", NL>>],
    [direction |-> "ERROR", content |-> <<"x", NL, "x">>] }

\* app.run(..., threaded=True): every request runs in a thread of its own,
\* and each of these workers is inside one log_packet call.
InitLog ==
  /\ stdout = <<>>
  /\ lp_arg \in [1..LogWorkers -> LogCalls]
  /\ lp_pc = [w \in 1..LogWorkers |-> "header"]
  /\ lp_i = [w \in 1..LogWorkers |-> 1]
  /\ TruncIdle /\ HdrIdle /\ RelayIdle /\ ShutdownIdle

\* print(f"{color}[{ts}] {direction}{Color.RESET}")
PrintHeader(w) ==
  /\ lp_pc[w] = "header"
  /\ stdout' = Append(stdout, [by |-> w, kind |-> "header", line |-> lp_arg[w].direction])
  /\ lp_pc' = [lp_pc EXCEPT ![w] = "lines"]
  /\ UNCHANGED <<lp_arg, lp_i, truncVars, hdrVars, relayVars, sdVars>>

\* for line in content.split("\n"): print(f"{color}{line}{Color.RESET}")
PrintLine(w) ==
  /\ lp_pc[w] = "lines"
  /\ lp_i[w] <= Len(split(lp_arg[w].content))
  /\ stdout' = Append(stdout, [by |-> w, kind |-> "payload",
                               line |-> split(lp_arg[w].content)[lp_i[w]]])
  /\ lp_i' = [lp_i EXCEPT ![w] = @ + 1]
  /\ UNCHANGED <<lp_pc, lp_arg, truncVars, hdrVars, relayVars, sdVars>>

\* print(""); sys.stdout.flush()
PrintBlank(w) ==
  /\ lp_pc[w] = "lines"
  /\ lp_i[w] > Len(split(lp_arg[w].content))
  /\ stdout' = Append(stdout, [by |-> w, kind |-> "blank", line |-> <<>>])
  /\ lp_pc' = [lp_pc EXCEPT ![w] = "done"]
  /\ UNCHANGED <<lp_arg, lp_i, truncVars, hdrVars, relayVars, sdVars>>

NextLog == \E w \in 1..LogWorkers : PrintHeader(w) \/ PrintLine(w) \/ PrintBlank(w)
SpecLog == InitLog /\ [][NextLog]_vars

(***************************************************************************)
(* mcp: one request through the relay                                      *)
(***************************************************************************)
MaxChunks == 2
MaxShutdownCalls == 2

\* A byte that is not valid UTF-8, and the replacement character U+FFFD.
BadByte == "\\xff"
Replacement == "U+FFFD"

\* request.get_data(as_text=True): bytes decoded as UTF-8, errors replaced.
decode_text(bytes) == [i \in DOMAIN bytes |-> IF bytes[i] = BadByte THEN Replacement ELSE bytes[i]]

\* str.encode("utf-8") on s[lo..hi]: U+FFFD is the three bytes EF BF BD, and
\* every other character in use is one byte.
RECURSIVE encode_range(_, _, _)
encode_range(s, lo, hi) ==
  IF lo > hi THEN <<>>
  ELSE IF lo = hi
       THEN IF s[lo] = Replacement THEN <<"\\xef", "\\xbf", "\\xbd">> ELSE <<s[lo]>>
  ELSE encode_range(s, lo, (lo + hi) \div 2) \o encode_range(s, (lo + hi) \div 2 + 1, hi)

\* str.encode("utf-8")
encode_utf8(s) == encode_range(s, 1, Len(s))

\* The inbound request bodies, as bytes.
RequestBodies ==
  { <<"{", "x", "}">>, Fill(VisibleLimit + 1), <<"x", BadByte>>, <<>> }

\* dict(request.headers): werkzeug gives the keys in title case.
RequestHeaders ==
  { (<<"H", "o", "s", "t">> :> "a") @@ (<<"C", "o", "n", "n", "e", "c", "t", "i", "o", "n">> :> "b") @@ (<<"A", "c", "c", "e", "p", "t">> :> "a"),
    (<<"C", "o", "n", "t", "e", "n", "t", "-", "T", "y", "p", "e">> :> "b") @@ (<<"T", "e">> :> "a") }

\* The lines upstream_response.iter_lines(decode_unicode=True) may deliver:
\* an empty line, a short line, a JSON line and a plain line over the limit.
\* A line holds no newline, and None is never delivered.
UpstreamLines ==
  { <<>>, <<"x">>, <<"{">> \o Fill(VisibleLimit + 1), Fill(VisibleLimit + 1) }

UpstreamStatuses == {200, 404}

\* One log_packet call, as a whole: the record it prints.
log_packet(direction, content) == Append(log, [direction |-> direction, content |-> content])

InitRelay ==
  /\ pc = "RECEIVING_REQUEST" /\ gen_pc = "none"
  /\ request_data \in RequestBodies
  /\ incoming_body = <<>>
  /\ incoming_headers \in RequestHeaders
  /\ filtered = <<>>
  /\ log = <<>> /\ upstream_posts = <<>> /\ delivered = <<>> /\ text = <<>>
  /\ client_status = 0 /\ client_body = "" /\ client_recv = <<>>
  /\ escaped = FALSE

InitShutdown ==
  /\ sd_handler = [i \in 1..MaxShutdownCalls |-> "idle"]
  /\ sd_thread = [i \in 1..MaxShutdownCalls |-> "none"]
  /\ func_calls = 0 /\ server_accepting = TRUE

Init == InitRelay /\ InitShutdown /\ TruncIdle /\ HdrIdle /\ LogIdle

\* The handler logging the inbound body under the truncation rule.
ReceiveRequest_Truncated ==
  /\ pc = "RECEIVING_REQUEST"
  /\ incoming_body' = decode_text(request_data)
  /\ log' = log_packet("A->B", apply_truncation_rule_if_needed(incoming_body'))
  /\ pc' = "FORWARDING_REQUEST"
  /\ UNCHANGED <<gen_pc, request_data, incoming_headers, filtered, upstream_posts,
                 delivered, text, client_status, client_body, client_recv, escaped>>
  /\ UNCHANGED <<truncVars, hdrVars, logVars, sdVars>>

\* Lines 153-156: read the body, log it as A->B.
ReceiveRequest ==
  /\ pc = "RECEIVING_REQUEST"
  /\ incoming_body' = decode_text(request_data)
  /\ log' = log_packet("A->B", incoming_body')
  /\ pc' = "FORWARDING_REQUEST"
  /\ UNCHANGED <<gen_pc, request_data, incoming_headers, filtered, upstream_posts,
                 delivered, text, client_status, client_body, client_recv, escaped>>
  /\ UNCHANGED <<truncVars, hdrVars, logVars, sdVars>>

\* The forced headers written under lower-case keys.
UpstreamHeaders_LowerKeys(h) ==
  DictSet(DictSet(strip_hop_by_hop_headers(h),
                  <<"a", "c", "c", "e", "p", "t">>, "application/json, text/event-stream"),
          <<"c", "o", "n", "t", "e", "n", "t", "-", "t", "y", "p", "e">>, "application/json")

\* Lines 159-163: the headers sent upstream.
UpstreamHeaders(h) ==
  DictSet(DictSet(strip_hop_by_hop_headers(h),
                  <<"A", "c", "c", "e", "p", "t">>, "application/json, text/event-stream"),
          <<"C", "o", "n", "t", "e", "n", "t", "-", "T", "y", "p", "e">>, "application/json")

\* Lines 159-175: build the headers, log B->C, call requests.post.
ForwardRequest ==
  /\ pc = "FORWARDING_REQUEST"
  /\ filtered' = UpstreamHeaders(incoming_headers)
  /\ log' = log_packet("B->C", incoming_body)
  /\ upstream_posts' = Append(upstream_posts,
                              [data |-> encode_utf8(incoming_body), headers |-> filtered'])
  /\ pc' = "AWAITING_UPSTREAM"
  /\ UNCHANGED <<gen_pc, incoming_body, request_data, incoming_headers, delivered, text,
                 client_status, client_body, client_recv, escaped>>
  /\ UNCHANGED <<truncVars, hdrVars, logVars, sdVars>>

\* The failure handler calling requests.post once more before giving up.
UpstreamFails_Retry ==
  /\ pc = "AWAITING_UPSTREAM"
  /\ log' = log_packet("ERROR", <<"e">>)
  /\ upstream_posts' = Append(upstream_posts,
                              [data |-> encode_utf8(incoming_body), headers |-> filtered])
  /\ client_status' = 502
  /\ client_body' = "Upstream connection error"
  /\ pc' = "FAILED"
  /\ UNCHANGED <<gen_pc, incoming_body, request_data, incoming_headers, filtered,
                 delivered, text, client_recv, escaped>>
  /\ UNCHANGED <<truncVars, hdrVars, logVars, sdVars>>

\* Lines 176-179: requests.post raised.
UpstreamFails ==
  /\ pc = "AWAITING_UPSTREAM"
  /\ log' = log_packet("ERROR", <<"e">>)
  /\ client_status' = 502
  /\ client_body' = "Upstream connection error"
  /\ pc' = "FAILED"
  /\ UNCHANGED <<gen_pc, incoming_body, request_data, incoming_headers, filtered, upstream_posts,
                 delivered, text, client_recv, escaped>>
  /\ UNCHANGED <<truncVars, hdrVars, logVars, sdVars>>

\* Lines 169-175 and 199-201: requests.post returned; the streamed response
\* is returned with the upstream's status and the generator as its body.
UpstreamResponds ==
  /\ pc = "AWAITING_UPSTREAM"
  /\ \E status \in UpstreamStatuses : client_status' = status
  /\ pc' = "STREAMING_RESPONSE"
  /\ gen_pc' = "suspended"
  /\ UNCHANGED <<incoming_body, request_data, incoming_headers, filtered, log, upstream_posts,
                 delivered, text, client_body, client_recv, escaped>>
  /\ UNCHANGED <<truncVars, hdrVars, logVars, sdVars>>

\* The server asks the generator for the next value: generate() starts, or
\* resumes after its yield, and is waiting in iter_lines.
PullNext ==
  /\ pc = "STREAMING_RESPONSE" /\ gen_pc = "suspended"
  /\ gen_pc' = "reading"
  /\ UNCHANGED <<pc, incoming_body, request_data, incoming_headers, filtered, log, upstream_posts,
                 delivered, text, client_status, client_body, client_recv, escaped>>
  /\ UNCHANGED <<truncVars, hdrVars, logVars, sdVars>>

\* The generator taking two lines from the upstream in one step and keeping
\* the second for later.
ReadChunk_Ahead ==
  /\ pc = "STREAMING_RESPONSE" /\ gen_pc = "reading"
  /\ Len(delivered) < MaxChunks
  /\ \E chunk \in UpstreamLines, ahead \in UpstreamLines :
       /\ delivered' = delivered \o <<chunk, ahead>>
       /\ text' = chunk \o <<NL>>
  /\ gen_pc' = "logging"
  /\ UNCHANGED <<pc, incoming_body, request_data, incoming_headers, filtered, log,
                 upstream_posts, client_status, client_body, client_recv, escaped>>
  /\ UNCHANGED <<truncVars, hdrVars, logVars, sdVars>>

\* Lines 183-188: iter_lines delivers a line; text = chunk + "\n".
ReadChunk ==
  /\ pc = "STREAMING_RESPONSE" /\ gen_pc = "reading"
  /\ Len(delivered) < MaxChunks
  /\ \E chunk \in UpstreamLines :
       /\ delivered' = Append(delivered, chunk)
       /\ text' = chunk \o <<NL>>
  /\ gen_pc' = "logging"
  /\ UNCHANGED <<pc, incoming_body, request_data, incoming_headers, filtered, log, upstream_posts,
                 client_status, client_body, client_recv, escaped>>
  /\ UNCHANGED <<truncVars, hdrVars, logVars, sdVars>>

\* Lines 191-192: log the chunk once, under the truncation rule.
LogChunk ==
  /\ pc = "STREAMING_RESPONSE" /\ gen_pc = "logging"
  /\ log' = log_packet("C->B", apply_truncation_rule_if_needed(text))
  /\ gen_pc' = "yielding"
  /\ UNCHANGED <<pc, incoming_body, request_data, incoming_headers, filtered, upstream_posts,
                 delivered, text, client_status, client_body, client_recv, escaped>>
  /\ UNCHANGED <<truncVars, hdrVars, logVars, sdVars>>

\* The generator yielding the logged form instead of text.
YieldChunk_Logged ==
  /\ pc = "STREAMING_RESPONSE" /\ gen_pc = "yielding"
  /\ client_recv' = Append(client_recv, apply_truncation_rule_if_needed(text))
  /\ gen_pc' = "suspended"
  /\ UNCHANGED <<pc, incoming_body, request_data, incoming_headers, filtered, log, upstream_posts,
                 delivered, text, client_status, client_body, escaped>>
  /\ UNCHANGED <<truncVars, hdrVars, logVars, sdVars>>

\* The generator logging the chunk again, as B->A, when it forwards it.
YieldChunk_Relog ==
  /\ pc = "STREAMING_RESPONSE" /\ gen_pc = "yielding"
  /\ log' = log_packet("B->A", apply_truncation_rule_if_needed(text))
  /\ client_recv' = Append(client_recv, text)
  /\ gen_pc' = "suspended"
  /\ UNCHANGED <<pc, incoming_body, request_data, incoming_headers, filtered, upstream_posts,
                 delivered, text, client_status, client_body, escaped>>
  /\ UNCHANGED <<truncVars, hdrVars, logVars, sdVars>>

\* Line 195: yield text.
YieldChunk ==
  /\ pc = "STREAMING_RESPONSE" /\ gen_pc = "yielding"
  /\ client_recv' = Append(client_recv, text)
  /\ gen_pc' = "suspended"
  /\ UNCHANGED <<pc, incoming_body, request_data, incoming_headers, filtered, log, upstream_posts,
                 delivered, text, client_status, client_body, escaped>>
  /\ UNCHANGED <<truncVars, hdrVars, logVars, sdVars>>

\* Line 183: iter_lines is exhausted; generate() returns.
StreamEnds ==
  /\ pc = "STREAMING_RESPONSE" /\ gen_pc = "reading"
  /\ gen_pc' = "returned"
  /\ pc' = "COMPLETE"
  /\ UNCHANGED <<incoming_body, request_data, incoming_headers, filtered, log, upstream_posts,
                 delivered, text, client_status, client_body, client_recv, escaped>>
  /\ UNCHANGED <<truncVars, hdrVars, logVars, sdVars>>

\* The generator swallowing the error and never ending the response.
StreamRaises_Hangs ==
  /\ pc = "STREAMING_RESPONSE" /\ gen_pc = "reading"
  /\ gen_pc' = "raised"
  /\ UNCHANGED <<pc, incoming_body, request_data, incoming_headers, filtered, log,
                 upstream_posts, delivered, text, client_status, client_body,
                 client_recv, escaped>>
  /\ UNCHANGED <<truncVars, hdrVars, logVars, sdVars>>

\* Line 183: iter_lines raises (the upstream connection broke). generate()
\* has no handler: the exception leaves it and the server drops the response.
StreamRaises ==
  /\ pc = "STREAMING_RESPONSE" /\ gen_pc = "reading"
  /\ gen_pc' = "raised"
  /\ escaped' = TRUE
  /\ pc' = "FAILED"
  /\ UNCHANGED <<incoming_body, request_data, incoming_headers, filtered, log, upstream_posts,
                 delivered, text, client_status, client_body, client_recv>>
  /\ UNCHANGED <<truncVars, hdrVars, logVars, sdVars>>

\* The client goes away while generate() is suspended: the server closes
\* the generator (GeneratorExit at line 195, or before the first line ran).
ClientCloses ==
  /\ pc = "STREAMING_RESPONSE" /\ gen_pc = "suspended"
  /\ gen_pc' = "closed"
  /\ pc' = "CLOSED"
  /\ UNCHANGED <<incoming_body, request_data, incoming_headers, filtered, log, upstream_posts,
                 delivered, text, client_status, client_body, client_recv, escaped>>
  /\ UNCHANGED <<truncVars, hdrVars, logVars, sdVars>>

(***************************************************************************)
(* shutdown and shutdown_server                                            *)
(***************************************************************************)
\* What line 208 can do in the thread: flask's request is bound to the
\* context of the request's own thread, so the lookup raises RuntimeError
\* (working outside of request context); where the context does reach the
\* thread, the environ either lacks the key (werkzeug 2.1 and later, or
\* another server) or holds the shutdown function.
EnvironLookups == {"no_request_context", "absent", "present"}

\* Line 215: threading.Thread(target=shutdown_server).start()
ShutdownStartThread(i) ==
  /\ server_accepting
  /\ sd_handler[i] = "idle"
  /\ i > 1 => sd_handler[i - 1] # "idle"
  /\ sd_handler' = [sd_handler EXCEPT ![i] = "started"]
  /\ sd_thread' = [sd_thread EXCEPT ![i] = "running"]
  /\ UNCHANGED <<func_calls, server_accepting>>
  /\ UNCHANGED <<truncVars, hdrVars, logVars, relayVars>>

\* Line 216: return "Proxy shutting down..."
ShutdownReturn(i) ==
  /\ sd_handler[i] = "started"
  /\ sd_handler' = [sd_handler EXCEPT ![i] = "responded"]
  /\ UNCHANGED <<sd_thread, func_calls, server_accepting>>
  /\ UNCHANGED <<truncVars, hdrVars, logVars, relayVars>>

\* Lines 207-210: shutdown_server in its thread.
ShutdownServer(i) ==
  /\ sd_thread[i] = "running"
  /\ \E found \in EnvironLookups :
       \/ /\ found = "no_request_context"
          /\ sd_thread' = [sd_thread EXCEPT ![i] = "raised"]
          /\ UNCHANGED <<func_calls, server_accepting>>
       \/ /\ found = "absent"
          /\ sd_thread' = [sd_thread EXCEPT ![i] = "returned"]
          /\ UNCHANGED <<func_calls, server_accepting>>
       \/ /\ found = "present"
          /\ sd_thread' = [sd_thread EXCEPT ![i] = "returned"]
          /\ func_calls' = func_calls + 1
          /\ server_accepting' = FALSE
  /\ UNCHANGED sd_handler
  /\ UNCHANGED <<truncVars, hdrVars, logVars, relayVars>>

\* The steps of the request through mcp().
Next ==
  \/ ReceiveRequest \/ ForwardRequest \/ UpstreamFails \/ UpstreamResponds
  \/ PullNext \/ ReadChunk \/ LogChunk \/ YieldChunk
  \/ StreamEnds \/ StreamRaises \/ ClientCloses

\* One request to /mcp.
Spec == Init /\ [][Next]_vars

\* One request to /mcp in which something keeps happening while a step is
\* possible: the worker thread runs, the upstream call returns or raises,
\* the upstream stream delivers, ends or raises, the server keeps pulling.
SpecLive == Init /\ [][Next]_vars /\ WF_vars(Next)

\* The steps of the requests to /shutdown and of the threads they start.
NextShutdown ==
  \E i \in 1..MaxShutdownCalls :
    ShutdownStartThread(i) \/ ShutdownReturn(i) \/ ShutdownServer(i)

\* One request to /mcp while requests to /shutdown arrive.
SpecShutdown == Init /\ [][Next \/ NextShutdown]_vars

(***************************************************************************)
(* Properties of the relay                                                 *)
(***************************************************************************)
\* The lines d, each with its newline restored.
Restored(d) == [i \in DOMAIN d |-> d[i] \o <<NL>>]

\* The records of the log with direction dir.
Records(dir) == SelectSeq(log, LAMBDA r : r.direction = dir)

\* p is a prefix of t.
IsPrefix(p, t) == Len(p) <= Len(t) /\ SubSeq(t, 1, Len(p)) = p

\* c is a logged form of the text t: t itself, or a prefix of t and the marker.
LoggedFormOf(c, t) ==
  \/ c = t
  \/ /\ EndsWithMarker(c)
     /\ IsPrefix(SubSeq(c, 1, Len(c) - Len(Marker)), t)

C2_NoDuplicateLogging ==
  pc = "COMPLETE"
    => /\ Len(Records("C->B")) = Len(delivered)
       /\ \A k \in 1..Len(delivered) :
            LoggedFormOf(Records("C->B")[k].content, delivered[k] \o <<NL>>)
       /\ Len(Records("B->A")) = 0

\* A stream of two different lines consumed to its end.
C2_Witness ==
  /\ pc = "COMPLETE" /\ Len(delivered) = 2 /\ delivered[1] # delivered[2]

\* C3: the upstream is posted to at most once; when the post raised, the
\* client has a 502 response with the short text body, the log holds exactly
\* one ERROR record and no C->B record, and nothing was forwarded.
C3_UpstreamFailurePath ==
  /\ Len(upstream_posts) <= 1
  /\ (pc = "FAILED" /\ gen_pc = "none")
       => /\ client_status = 502
          /\ client_body = "Upstream connection error"
          /\ Len(Records("ERROR")) = 1
          /\ Len(Records("C->B")) = 0
          /\ Len(upstream_posts) = 1
          /\ client_recv = <<>> /\ delivered = <<>>

\* The request has failed at the upstream call.
C3_Witness ==
  pc = "FAILED" /\ gen_pc = "none" /\ Len(log) = 3 /\ client_status = 502

(***************************************************************************)
(* Properties of the header filter                                         *)
(***************************************************************************)
C7_HopNames ==
  { <<"c", "o", "n", "n", "e", "c", "t", "i", "o", "n">>,
    <<"k", "e", "e", "p", "-", "a", "l", "i", "v", "e">>,
    <<"p", "r", "o", "x", "y", "-", "a", "u", "t", "h", "e", "n", "t", "i", "c", "a", "t", "e">>,
    <<"p", "r", "o", "x", "y", "-", "a", "u", "t", "h", "o", "r", "i", "z", "a", "t", "i", "o", "n">>,
    <<"t", "e">>,
    <<"t", "r", "a", "i", "l", "e", "r", "s">>,
    <<"t", "r", "a", "n", "s", "f", "e", "r", "-", "e", "n", "c", "o", "d", "i", "n", "g">>,
    <<"u", "p", "g", "r", "a", "d", "e">> }

\* Characters a and b are the same letter, whatever their case.
SameLetter(a, b) ==
  \/ a = b
  \/ a \in DOMAIN UpperToLower /\ UpperToLower[a] = b
  \/ b \in DOMAIN UpperToLower /\ UpperToLower[b] = a

\* Key k is, case-insensitively, one of the hop-by-hop names.
IsHopKey(k) ==
  \E h \in C7_HopNames :
    Len(h) = Len(k) /\ \A i \in 1..Len(k) : SameLetter(k[i], h[i])

\* C7: the call returns a mapping with no hop-by-hop key and with every other
\* entry of the input, key and value unchanged, and nothing else; the input
\* mapping is the same after the call as before it.
C7_HeaderFiltering ==
  [][ (hdr_pc = "call" /\ hdr_pc' = "returned")
        => /\ \A k \in DOMAIN hdr_result' : ~IsHopKey(k)
           /\ \A k \in DOMAIN headers :
                ~IsHopKey(k) => (k \in DOMAIN hdr_result' /\ hdr_result'[k] = headers[k])
           /\ DOMAIN hdr_result' \subseteq DOMAIN headers
           /\ headers' = headers ]_vars

\* A mapping with hop-by-hop keys in two spellings and another key, filtered.
C7_Witness ==
  /\ hdr_pc = "returned"
  /\ <<"C", "o", "n", "n", "e", "c", "t", "i", "o", "n">> \in DOMAIN headers
  /\ <<"T", "E">> \in DOMAIN headers
  /\ <<"H", "o", "s", "t">> \in DOMAIN headers
  /\ DOMAIN hdr_result = {<<"H", "o", "s", "t">>}

(***************************************************************************)
(* Properties of shutdown and of the logger under concurrency              *)
(***************************************************************************)
\* A request to /shutdown has run to its end, handler and thread, and the
\* server is still up.
ShutdownRequestOver ==
  /\ server_accepting
  /\ \E i \in 1..MaxShutdownCalls :
       sd_handler[i] = "responded" /\ sd_thread[i] \in {"raised", "returned"}

\* C8: once shutdown has been requested, a relay that is between two chunks
\* stops: it does not go on to read a further chunk from the upstream.
C8_ShutdownAbortsStream ==
  [][ (ShutdownRequestOver /\ pc = "STREAMING_RESPONSE"
         /\ gen_pc = "suspended" /\ Len(client_recv) >= 1)
        => gen_pc' # "reading" ]_vars

\* Every request to /shutdown the model allows has run to its end, handler
\* and thread.
AllShutdownRequestsOver ==
  \A i \in 1..MaxShutdownCalls :
    sd_handler[i] = "responded" /\ sd_thread[i] \in {"raised", "returned"}

\* C9: when the shutdown trigger has been invoked more than once and every
\* invocation is over, however they interleaved, none has ended in an
\* unhandled error and the server has been stopped.
C9_ShutdownIdempotent ==
  AllShutdownRequestsOver
    => /\ \A i \in 1..MaxShutdownCalls : sd_thread[i] # "raised"
       /\ ~server_accepting

\* C10: the lines one worker's log_packet call writes are contiguous on
\* standard output: no line of another worker lies between two of them.
C10_LogRecordAtomic ==
  \A i, j, k \in 1..Len(stdout) :
    (i < j /\ j < k /\ stdout[i].by = stdout[k].by) => stdout[j].by = stdout[i].by

(***************************************************************************)
(* Properties of the relay: interruption and the request body              *)
(***************************************************************************)
\* C11: when the upstream stream raised after k lines, the log holds an
\* ERROR record for it, the response has ended, and the client holds exactly
\* the k lines delivered before the error.
C11_MidStreamInterruption ==
  (gen_pc = "raised")
    => /\ Len(Records("ERROR")) = 1
       /\ pc = "FAILED"
       /\ Join(client_recv) = Join(Restored(delivered))

\* C12: the body of every post to the upstream is, byte for byte, the inbound
\* request body, and every request that was received is posted.
C12_BodyForwardedVerbatim ==
  /\ \A k \in 1..Len(upstream_posts) : upstream_posts[k].data = request_data
  /\ pc \notin {"RECEIVING_REQUEST", "FORWARDING_REQUEST"} => Len(upstream_posts) = 1

(***************************************************************************)
(* The upstream headers built from bounded inbound mappings                *)
(***************************************************************************)
\* The keys of dict(request.headers): werkzeug derives them from the WSGI
\* environ and gives them in title case, whatever the client wrote.
InboundKeys ==
  { <<"H", "o", "s", "t">>,
    <<"C", "o", "n", "n", "e", "c", "t", "i", "o", "n">>,
    <<"A", "c", "c", "e", "p", "t">>,
    <<"C", "o", "n", "t", "e", "n", "t", "-", "T", "y", "p", "e">>,
    <<"T", "e">>,
    <<"K", "e", "e", "p", "-", "A", "l", "i", "v", "e">>,
    <<"X", "-", "T", "e">> }

InboundMappings ==
  UNION { [S -> HeaderValues] : S \in {T \in SUBSET InboundKeys : Cardinality(T) <= MaxHeaders} }

InitFwd ==
  /\ headers \in InboundMappings /\ hdr_result = <<>> /\ hdr_pc = "call"
  /\ TruncIdle /\ LogIdle /\ RelayIdle /\ ShutdownIdle

\* Lines 159-163: filtered is built from incoming_headers, which is only read.
BuildUpstreamHeaders ==
  /\ hdr_pc = "call"
  /\ hdr_result' = UpstreamHeaders(headers)
  /\ headers' = headers
  /\ hdr_pc' = "returned"
  /\ UNCHANGED <<truncVars, logVars, relayVars, sdVars>>

NextFwd == BuildUpstreamHeaders
SpecFwd == InitFwd /\ [][NextFwd]_vars

\* Key k is, case-insensitively, the name h.
IsName(k, h) == Len(h) = Len(k) /\ \A i \in 1..Len(k) : SameLetter(k[i], h[i])

C13_Accept == <<"a", "c", "c", "e", "p", "t">>
C13_ContentType == <<"c", "o", "n", "t", "e", "n", "t", "-", "t", "y", "p", "e">>

\* C13: the mapping sent upstream has exactly one Accept entry and exactly
\* one Content-Type entry, keys compared case-insensitively, each with its
\* forced value; it has no hop-by-hop key; every other entry of it is an
\* entry of the inbound mapping, and every other inbound entry that is not
\* hop-by-hop is in it unchanged.
C13_ForcedOutboundHeaders ==
  hdr_pc = "returned"
    => /\ Cardinality({k \in DOMAIN hdr_result : IsName(k, C13_Accept)}) = 1
       /\ Cardinality({k \in DOMAIN hdr_result : IsName(k, C13_ContentType)}) = 1
       /\ \A k \in DOMAIN hdr_result :
            /\ IsName(k, C13_Accept) => hdr_result[k] = "application/json, text/event-stream"
            /\ IsName(k, C13_ContentType) => hdr_result[k] = "application/json"
            /\ ~IsHopKey(k)
            /\ (~IsName(k, C13_Accept) /\ ~IsName(k, C13_ContentType))
                 => (k \in DOMAIN headers /\ hdr_result[k] = headers[k])
       /\ \A k \in DOMAIN headers :
            (~IsHopKey(k) /\ ~IsName(k, C13_Accept) /\ ~IsName(k, C13_ContentType))
              => (k \in DOMAIN hdr_result /\ hdr_result[k] = headers[k])

\* An inbound mapping with its own Content-Type, a hop-by-hop key and another
\* key, sent upstream.
C13_Witness ==
  /\ hdr_pc = "returned"
  /\ DOMAIN headers = {<<"C", "o", "n", "t", "e", "n", "t", "-", "T", "y", "p", "e">>, <<"C", "o", "n", "n", "e", "c", "t", "i", "o", "n">>, <<"H", "o", "s", "t">>}
  /\ headers[<<"C", "o", "n", "t", "e", "n", "t", "-", "T", "y", "p", "e">>] = "b"
  /\ DOMAIN hdr_result = {<<"C", "o", "n", "t", "e", "n", "t", "-", "T", "y", "p", "e">>, <<"A", "c", "c", "e", "p", "t">>, <<"H", "o", "s", "t">>}

(***************************************************************************)
(* Properties of the shutdown endpoint                                     *)
(***************************************************************************)
\* C14: the termination started by a request to /shutdown runs on its own
\* thread and stops the server: once that thread has run to its end, the
\* server no longer accepts connections.
C14_ShutdownEndpoint ==
  \A i \in 1..MaxShutdownCalls :
    sd_thread[i] \in {"raised", "returned"} => ~server_accepting

(***************************************************************************)
(* Properties of the truncation rule: the marker and a second application  *)
(***************************************************************************)
\* C15: in a truncated output the marker immediately follows the 350th
\* visible character: the character before the marker is not a newline, so
\* no newline that comes after the 350th visible character is copied.
C15_MarkerPlacement ==
  (trunc_pc = "returned" /\ ~FirstNonSpaceIsBrace(frag) /\ VisibleCount(frag) > 350)
    => /\ EndsWithMarker(frag_logged)
       /\ frag_logged[Len(frag_logged) - Len(Marker)] # NL
       /\ VisibleCount(frag_logged) = 350 + Len(Marker)

\* C19: applying the rule to a value it returned gives that value again; a
\* truncated value is neither cut further nor given a second marker.
C19_TruncationIdempotent ==
  trunc_pc = "relogged" => frag_relogged = frag_logged

\* A truncated value, with newlines in it, to which the rule was applied again.
C19_Witness ==
  /\ trunc_pc = "relogged"
  /\ frag_logged # frag
  /\ VisibleCount(frag_logged) = 350 + Len(Marker)
  /\ Len(frag_logged) > 350 + Len(Marker)
  /\ frag_relogged = frag_logged

(***************************************************************************)
(* Properties of the relay: order, pull and termination                    *)
(***************************************************************************)
\* The text c is the inbound body in full: as long as it, and equal to it
\* at every byte that is valid text.
CarriesBody(c) ==
  /\ Len(c) = Len(request_data)
  /\ \A i \in 1..Len(c) : request_data[i] # BadByte => c[i] = request_data[i]

\* The log starts with A->B, then B->C, both with the body in full; what
\* follows is one ERROR record or C->B records only; the upstream is posted
\* to once, with the B->C record, and before anything further is logged.
C16_LogShape ==
  /\ Len(log) >= 1 => (log[1].direction = "A->B" /\ CarriesBody(log[1].content))
  /\ Len(log) >= 2 => (log[2].direction = "B->C" /\ CarriesBody(log[2].content))
  /\ \A k \in 3..Len(log) : log[k].direction \in {"ERROR", "C->B"}
  /\ Len(Records("ERROR")) >= 1 => (Len(log) = 3 /\ pc = "FAILED")
  /\ Len(upstream_posts) = IF Len(log) >= 2 THEN 1 ELSE 0
  /\ pc = "RECEIVING_REQUEST" => Len(log) = 0
  /\ pc = "FORWARDING_REQUEST" => Len(log) = 1
  /\ pc = "AWAITING_UPSTREAM" => Len(log) = 2

\* The moves of the handler from one state to the next.
C16_Moves ==
  { <<"RECEIVING_REQUEST", "FORWARDING_REQUEST">>,
    <<"FORWARDING_REQUEST", "AWAITING_UPSTREAM">>,
    <<"AWAITING_UPSTREAM", "STREAMING_RESPONSE">>,
    <<"AWAITING_UPSTREAM", "FAILED">>,
    <<"STREAMING_RESPONSE", "COMPLETE">>,
    <<"STREAMING_RESPONSE", "FAILED">>,
    <<"STREAMING_RESPONSE", "CLOSED">> }

\* C16: for every request the log and the upstream call follow the order
\* A->B, B->C and the post, then one ERROR record or C->B records, and the
\* handler only moves forward along its states, skipping none.
C16_EventOrdering ==
  /\ []C16_LogShape
  /\ [][pc' # pc => <<pc, pc'>> \in C16_Moves]_vars

\* A request with a body over the limit that streamed a line to its end.
C16_Witness ==
  /\ pc = "COMPLETE"
  /\ request_data = Fill(VisibleLimit + 1)
  /\ Len(log) = 3 /\ log[3].direction = "C->B"

\* C17: the relay holds at most one line read from the upstream and not yet
\* yielded; a line is read only when every earlier one has been yielded; a
\* line is logged before it is yielded, so the C->B records are as many as
\* the lines yielded, or one more.
C17_PullBasedRelay ==
  /\ Len(delivered) - Len(client_recv) \in {0, 1}
  /\ Len(Records("C->B")) - Len(client_recv) \in {0, 1}
  /\ Len(Records("C->B")) <= Len(delivered)
  /\ Len(delivered) - Len(client_recv) = 1 <=> gen_pc \in {"logging", "yielding"}
  /\ Len(Records("C->B")) - Len(client_recv) = 1 <=> gen_pc = "yielding"

\* The second line has been read and logged and is about to be yielded.
C17_Witness ==
  /\ gen_pc = "yielding" /\ Len(delivered) = 2
  /\ Len(client_recv) = 1 /\ Len(Records("C->B")) = 2

\* The request has ended: a complete response, a 502 response, a response
\* dropped by the server, or a client that went away.
C18_Ended ==
  \/ pc = "COMPLETE" /\ Join(client_recv) = Join(Restored(delivered))
  \/ pc = "FAILED" /\ (client_status = 502 \/ escaped)
  \/ pc = "CLOSED"

\* C18: every request ends.
C18_EveryRequestTerminates == <>C18_Ended

\* A request that ended because the upstream stream raised after a line.
C18_Witness ==
  pc = "FAILED" /\ escaped /\ Len(client_recv) = 1

====
